---- MODULE Spec2Model ----
(***************************************************************************)
(* A model of sequelize-to-json's Serializer (src/index.js): scheme        *)
(* resolution, option merging, attribute classification and compilation,   *)
(* and the recursive serialization of records with a path-keyed cache of   *)
(* child serializers.                                                      *)
(*                                                                         *)
(* JavaScript values are records tagged by a kind k; a JavaScript object   *)
(* is a function from its own keys to values; a thrown Error is a value of *)
(* kind "error".  Strings that the code inspects character-wise (attribute *)
(* selectors) are kept as a marker m ("@", "." or "") and the rest n, so   *)
(* that a[0] is m, a.substr(1) is n and '.' + a sets the marker.           *)
(***************************************************************************)
EXTENDS Integers, Sequences, FiniteSets, TLC

VARIABLES serializer, cache, call, ret, log

vars == <<serializer, cache, call, ret, log>>

\* ------------------------------------------------------------- bounds

MaxItems == 2

MaxDepth == 3

MaxInclude == 2

MaxExclude == 2

\* ------------------------------------------------------- JavaScript values

Undefined == [k |-> "undefined"]

Null == [k |-> "null"]

Str(s) == [k |-> "string", v |-> s]

Num(n) == [k |-> "number", v |-> n]

Bool(b) == [k |-> "boolean", v |-> b]

Arr(s) == [k |-> "array", v |-> s]

Obj(o) == [k |-> "object", v |-> o]

Fn(name) == [k |-> "function", v |-> name]

Method(r) == [k |-> "method", v |-> r]

Inst(id) == [k |-> "instance", v |-> id]

DateV(y, m, d) == [k |-> "date", v |-> <<y, m, d>>]

Buf(bytes) == [k |-> "buffer", v |-> bytes]

Thrown(name, model, attr) == [k |-> "error", v |-> [name |-> name, model |-> model, attr |-> attr]]

Truthy(x) ==
  CASE x.k \in {"undefined", "null"} -> FALSE
    [] x.k = "string" -> x.v # ""
    [] x.k = "number" -> x.v # 0
    [] x.k = "boolean" -> x.v
    [] OTHER -> TRUE

TypeofObject(x) == x.k \in {"object", "array", "null", "date", "buffer", "instance"}

Get(o, key) == IF key \in DOMAIN o THEN o[key] ELSE Undefined

Prop(x, key) == IF x.k = "object" THEN Get(x.v, key) ELSE Undefined

Range(s) == {s[i] : i \in 1..Len(s)}

IndexOf(s, x) == IF x \in Range(s) THEN (CHOOSE i \in 1..Len(s) : s[i] = x /\ \A j \in 1..(i - 1) : s[j] # x) - 1 ELSE -1

\* Attribute selectors
Lit(n) == [m |-> "", n |-> n]

Dot(n) == [m |-> ".", n |-> n]

Grp(n) == [m |-> "@", n |-> n]

UndefinedEntry == [m |-> "undefined", n |-> ""]

\* --------------------------------------------------------- program constants

FAIL == 1

SKIP == 2

SET_NULL == 3

DOC_DB_TYPES == <<"JSON", "JSONB", "HSTORE">>

defaultOptions ==
  [ encoder |-> Fn("encodeToJSON"),
    undefinedPolicy |-> Num(SKIP),
    copyJSONFields |-> Bool(TRUE),
    simpleDates |-> Bool(TRUE),
    encoderOptions |-> Obj([blobEncoding |-> Str("base64")]) ]

\* ------------------------------------------------- models (the data layer)

Attribute(fieldName, type, primaryKey, references, autoGenerated) ==
  [fieldName |-> fieldName, type |-> type, primaryKey |-> primaryKey,
   references |-> references, autoGenerated |-> autoGenerated]

PostSchemes ==
  [ default |-> Obj([ include |-> Arr(<<Grp("all"), Grp("assoc"), Lit("owner")>>),
                      exclude |-> Arr(<<Grp("fk")>>),
                      assoc |-> Obj([author |-> Str("brief")]),
                      postSerialize |-> Fn("Post.default.postSerialize") ]),
    brief |-> Obj([ include |-> Arr(<<Lit("id"), Lit("title")>>) ]),
    full |-> Obj([ include |-> Arr(<<Grp("all"), Lit("author"), Lit("getUrl"), Lit("owner")>>),
                   as |-> Obj([getUrl |-> Str("url")]),
                   assoc |-> Obj([ author |-> Obj([include |-> Arr(<<Lit("name")>>)]),
                                   owner |-> Str("brief") ]),
                   options |-> Obj([undefinedPolicy |-> Num(SET_NULL)]) ]),
    extra |-> Obj([ include |-> Arr(<<Lit("day")>>),
                    options |-> Obj([simpleDates |-> Bool(FALSE)]),
                    postSerialize |-> Fn("Post.extra.postSerialize") ]) ]

Post ==
  [ name |-> "Post", valid |-> TRUE,
    rawAttributes |-> << Attribute("id", "INTEGER", TRUE, FALSE, FALSE),
                         Attribute("authorId", "INTEGER", FALSE, TRUE, FALSE),
                         Attribute("title", "STRING", FALSE, FALSE, FALSE),
                         Attribute("meta", "JSON", FALSE, FALSE, FALSE),
                         Attribute("props", "HSTORE", FALSE, FALSE, FALSE),
                         Attribute("day", "DATEONLY", FALSE, FALSE, FALSE),
                         Attribute("createdAt", "DATE", FALSE, FALSE, TRUE) >>,
    associations |-> <<"author", "parent">>,
    serializer |-> Obj([ schemes |-> Obj(PostSchemes),
                         options |-> Obj([ copyJSONFields |-> Bool(FALSE),
                                           encoderOptions |-> Obj([blobEncoding |-> Str("hex")]) ]),
                         postSerialize |-> Fn("Post.postSerialize") ]) ]

User ==
  [ name |-> "User", valid |-> TRUE,
    rawAttributes |-> << Attribute("id", "INTEGER", TRUE, FALSE, FALSE),
                         Attribute("name", "STRING", FALSE, FALSE, FALSE),
                         Attribute("avatar", "BLOB", FALSE, FALSE, FALSE) >>,
    associations |-> <<>>,
    serializer |-> Obj([ defaultScheme |-> Str("public"),
                         schemes |-> Obj([ public |-> Obj([ include |-> Arr(<<Lit("name"), Lit("avatar")>>),
                                                            postSerialize |-> Fn("User.public.postSerialize") ]),
                                           brief |-> Obj([ include |-> Arr(<<Lit("id")>>) ]) ]),
                         options |-> Obj([undefinedPolicy |-> Num(FAIL)]) ]) ]

Tag ==
  [ name |-> "Tag", valid |-> TRUE,
    rawAttributes |-> << Attribute("id", "INTEGER", TRUE, FALSE, FALSE),
                         Attribute("label", "STRING", FALSE, FALSE, FALSE) >>,
    associations |-> <<>>,
    serializer |-> Undefined ]

Legacy ==
  [ name |-> "Legacy", valid |-> TRUE,
    rawAttributes |-> << Attribute("id", "INTEGER", TRUE, FALSE, FALSE) >>,
    associations |-> <<>>,
    serializer |-> Obj([ defaultScheme |-> Str("gone"),
                         schemes |-> Obj([ default |-> Obj([ include |-> Arr(<<Lit("id")>>) ]) ]) ]) ]

Plain ==
  [ name |-> "Plain", valid |-> TRUE,
    rawAttributes |-> << Attribute("id", "INTEGER", TRUE, FALSE, FALSE),
                         Attribute("note", "STRING", FALSE, FALSE, FALSE) >>,
    associations |-> <<>>,
    serializer |-> Obj([ schemes |-> Obj([ brief |-> Obj([ include |-> Arr(<<Lit("note")>>) ]) ]),
                         postSerialize |-> Fn("Plain.postSerialize") ]) ]

NotAModel ==
  [ name |-> "NotAModel", valid |-> FALSE, rawAttributes |-> <<>>, associations |-> <<>>,
    serializer |-> Undefined ]

ModelNames == {"Post", "User", "Tag", "Legacy", "Plain"}

Model(name) ==
  CASE name = "Post" -> Post
    [] name = "User" -> User
    [] name = "Tag" -> Tag
    [] name = "Legacy" -> Legacy
    [] name = "Plain" -> Plain
    [] OTHER -> NotAModel

\* ------------------------------------------------- records (model instances)
\* dataValues is what inst.get(name) reads; own holds the other properties of
\* the instance object (loaded associations, ad-hoc properties, methods).

Record(model, dataValues, own) == [model |-> model, dataValues |-> dataValues, own |-> own]

Records ==
  << Record("Post",
       [ id |-> Num(1), authorId |-> Num(9), title |-> Str("T"),
         meta |-> Obj([a |-> Num(1)]), props |-> Obj([b |-> Str("x")]),
         day |-> DateV(2020, 1, 5), createdAt |-> DateV(2020, 1, 5) ],
       [ author |-> Inst(5), owner |-> Inst(5), getUrl |-> Method(Str("http://x")) ]),
     Record("Post",
       [ id |-> Num(2), authorId |-> Num(10), meta |-> Arr(<<Num(1)>>) ],
       [ author |-> Inst(6), owner |-> Inst(7) ]),
     Record("Post",
       [ id |-> Num(3), title |-> Str("C") ],
       [ parent |-> Inst(3) ]),
     Record("Post",
       [ id |-> Num(4), title |-> Str("D") ],
       [ parent |-> Inst(1), owner |-> Arr(<<Inst(5), Inst(5)>>) ]),
     Record("User", [ id |-> Num(9), name |-> Str("Ann"), avatar |-> Buf(<<0, 1, 2>>) ], <<>>),
     Record("User", [ id |-> Num(10), avatar |-> Buf(<<0>>) ], <<>>),
     Record("Tag", [ id |-> Num(1), label |-> Str("x") ], <<>>),
     Record("Legacy", [ id |-> Num(1) ], <<>>),
     Record("Plain", [ id |-> Num(1), note |-> Str("n") ], <<>>) >>

RecordIds == 1..Len(Records)

\* inst.get(name)
InstGet(id, name) == Get(Records[id].dataValues, name)

\* inst[name]: an own property, else the attribute accessor of the same name
InstProp(id, name) ==
  IF name \in DOMAIN Records[id].own THEN Records[id].own[name] ELSE InstGet(id, name)


\* ------------------------------------------------------------ the encoder

\* Strings: a literal, and the texts made from a date or a buffer.
StringKinds == {"string", "isoString", "ymdString", "bufferString"}

RECURSIVE encodeToJSON(_, _)
\* A thrown Error anywhere inside aborts the whole encoding.
encodeToJSON(value, options) ==
  CASE value.k \in StringKinds \cup {"number", "boolean", "null"} -> value
    [] value.k = "array" ->
         LET enc == [i \in 1..Len(value.v) |-> encodeToJSON(value.v[i], options)]
             bad == {i \in 1..Len(value.v) : enc[i].k = "error"}
         IN IF bad = {} THEN Arr(enc) ELSE enc[CHOOSE i \in bad : \A j \in bad : i <= j]
    [] value.k = "date" -> [k |-> "isoString", v |-> value.v]
    [] value.k = "buffer" -> [k |-> "bufferString", v |-> <<Prop(options, "blobEncoding"), value.v>>]
    [] value.k = "object" ->
         LET enc == [key \in DOMAIN value.v |-> encodeToJSON(value.v[key], options)]
             bad == {key \in DOMAIN value.v : enc[key].k = "error"}
         IN IF bad = {} THEN Obj(enc) ELSE enc[CHOOSE key \in bad : TRUE]
    [] OTHER -> Thrown("Can't encode to JSON", value.k, "")

\* An encoder supplied by the caller in place of encodeToJSON.
customEncoder(value, options) == [k |-> "custom", v |-> value]

applyEncoder(encoder, value, options) ==
  IF encoder = Fn("encodeToJSON") THEN encodeToJSON(value, options)
  ELSE customEncoder(value, options)

\* ------------------------------------------------------- merging utilities

\* _.cloneDeep: a deep copy is the same value.
cloneDeep(value) == value

\* The own enumerable keys of a value in a for-in loop: an object's keys, an
\* array's indices, none for anything else.
OwnKeys(x) ==
  IF x.k = "object" THEN x.v
  ELSE IF x.k = "array"
    THEN [key \in {ToString(i - 1) : i \in 1..Len(x.v)} |->
            x.v[CHOOSE i \in 1..Len(x.v) : ToString(i - 1) = key]]
  ELSE <<>>

RECURSIVE deepMerge(_)
\* sources: a sequence of values, merged left to right into a new object.
deepMerge(sources) ==
  IF Len(sources) = 0 THEN <<>>
  ELSE LET res == deepMerge(SubSeq(sources, 1, Len(sources) - 1))
           object == OwnKeys(sources[Len(sources)])
       IN [ key \in DOMAIN res \cup DOMAIN object |->
              IF key \notin DOMAIN object THEN res[key]
              ELSE IF key \in DOMAIN res /\ object[key].k = "array" /\ res[key].k = "array"
                THEN Arr(res[key].v \o object[key].v)
              ELSE IF key \in DOMAIN res /\ TypeofObject(object[key]) /\ TypeofObject(res[key])
                THEN Obj(deepMerge(<<res[key], object[key]>>))
              ELSE cloneDeep(object[key]) ]

RECURSIVE defaultsDeep(_)
\* _.defaultsDeep({}, sources...): a key keeps the value of the first source
\* that defines it (not undefined); two objects under one key are merged the
\* same way.  sources holds objects and null/undefined entries.
defaultsDeep(sources) ==
  IF Len(sources) = 0 THEN <<>>
  ELSE LET first == sources[1]
           head == IF first.k = "object" THEN first.v ELSE <<>>
           rest == defaultsDeep(Tail(sources))
           defined(o) == {key \in DOMAIN o : o[key] # Undefined}
       IN [ key \in defined(head) \cup DOMAIN rest |->
              IF key \notin defined(head) THEN rest[key]
              ELSE IF key \in DOMAIN rest /\ head[key].k = "object" /\ rest[key].k = "object"
                THEN Obj(defaultsDeep(<<head[key], rest[key]>>))
              ELSE head[key] ]

\* _.uniq: first occurrence wins, order kept.
uniq(list) ==
  LET first == {i \in 1..Len(list) : \A j \in 1..(i - 1) : list[j] # list[i]}
  IN [n \in 1..Cardinality(first) |->
        list[CHOOSE i \in first : Cardinality({j \in first : j <= i}) = n]]

\* ---------------------------------------------------------- construction

\* A lookup that gives the empty scheme for a name the scheme map lacks.
getSchemeFromModelOrEmpty(model, scheme) ==
  IF Truthy(model.serializer) /\ Truthy(Prop(model.serializer, "schemes"))
  THEN LET found == Prop(Prop(model.serializer, "schemes"), scheme)
       IN IF Truthy(found) THEN found ELSE Obj(<<>>)
  ELSE Obj(<<>>)

getSchemeFromModel(model, scheme) ==
  IF Truthy(model.serializer) /\ Truthy(Prop(model.serializer, "schemes"))
  THEN LET found == Prop(Prop(model.serializer, "schemes"), scheme)
       IN IF Truthy(found) THEN found ELSE Null
  ELSE Null

\* scheme.join('_')
JoinNames(names) ==
  IF Len(names) = 0 THEN Str("")
  ELSE IF Len(names) = 1 THEN Str(names[1])
  ELSE [k |-> "joined", v |-> names]

\* A resolution that, for a falsy reference, tries the scheme named "default"
\* before the declared default-scheme name.
resolveSchemeDefaultFirst(model, scheme) ==
  IF scheme.k = "array" THEN
    [ schemeName |-> JoinNames(scheme.v),
      scheme |-> IF Truthy(model.serializer) /\ TypeofObject(Prop(model.serializer, "schemes"))
                 THEN Obj(deepMerge([i \in 1..Len(scheme.v) |->
                                       Prop(Prop(model.serializer, "schemes"), scheme.v[i])]))
                 ELSE Null ]
  ELSE IF scheme.k = "string" THEN
    [ schemeName |-> scheme, scheme |-> getSchemeFromModel(model, scheme.v) ]
  ELSE IF ~Truthy(scheme) THEN
    IF Truthy(model.serializer) THEN
      LET schemes == IF Truthy(Prop(model.serializer, "schemes"))
                     THEN Prop(model.serializer, "schemes") ELSE Obj(<<>>)
          defaultScheme == Prop(model.serializer, "defaultScheme")
      IN IF Truthy(Prop(schemes, "default"))
         THEN [ schemeName |-> Str("default"), scheme |-> Prop(schemes, "default") ]
         ELSE IF Truthy(defaultScheme)
           THEN [ schemeName |-> defaultScheme, scheme |-> Prop(schemes, defaultScheme.v) ]
           ELSE [ schemeName |-> Null, scheme |-> Obj(<<>>) ]
    ELSE [ schemeName |-> Null, scheme |-> Obj(<<>>) ]
  ELSE [ schemeName |-> Null, scheme |-> scheme ]

\* The scheme-resolving branches of the constructor: the resolved scheme and its name.
resolveScheme(model, scheme) ==
  IF scheme.k = "array" THEN
    [ schemeName |-> JoinNames(scheme.v),
      scheme |-> IF Truthy(model.serializer) /\ TypeofObject(Prop(model.serializer, "schemes"))
                 THEN Obj(deepMerge([i \in 1..Len(scheme.v) |->
                                       Prop(Prop(model.serializer, "schemes"), scheme.v[i])]))
                 ELSE Null ]
  ELSE IF scheme.k = "string" THEN
    [ schemeName |-> scheme, scheme |-> getSchemeFromModel(model, scheme.v) ]
  ELSE IF ~Truthy(scheme) THEN
    IF Truthy(model.serializer) THEN
      LET schemes == IF Truthy(Prop(model.serializer, "schemes"))
                     THEN Prop(model.serializer, "schemes") ELSE Obj(<<>>)
          defaultScheme == Prop(model.serializer, "defaultScheme")
      IN IF Truthy(defaultScheme)
         THEN [ schemeName |-> defaultScheme, scheme |-> Prop(schemes, defaultScheme.v) ]
         ELSE IF Truthy(Prop(schemes, "default"))
           THEN [ schemeName |-> Str("default"), scheme |-> Prop(schemes, "default") ]
           ELSE [ schemeName |-> Null, scheme |-> Obj(<<>>) ]
    ELSE [ schemeName |-> Null, scheme |-> Obj(<<>>) ]
  ELSE [ schemeName |-> Null, scheme |-> scheme ]

\* An option merge in which the scheme's options come before the constructor's.
mergeOptionsSchemeFirst(options, scheme, model) ==
  defaultsDeep(<< Prop(scheme, "options"),
                  options,
                  IF Truthy(model.serializer) THEN Prop(model.serializer, "options") ELSE Null,
                  Obj(defaultOptions) >>)

\* this._options
mergeOptions(options, scheme, model) ==
  defaultsDeep(<< options,
                  Prop(scheme, "options"),
                  IF Truthy(model.serializer) THEN Prop(model.serializer, "options") ELSE Null,
                  Obj(defaultOptions) >>)

\* An attrFilter supplied by the caller: drops the auto-generated attributes.
applyAttrFilter(filter, a) ==
  IF filter = Fn("dropAutoGenerated") THEN ~a.autoGenerated ELSE TRUE

FieldNames(attrs) == [i \in 1..Len(attrs) |-> attrs[i].fieldName]

collectAttrs(model, options) ==
  LET kept == SelectSeq(model.rawAttributes,
                LAMBDA a : ~(Truthy(Get(options, "attrFilter"))
                             /\ ~applyAttrFilter(Get(options, "attrFilter"), a)))
      pick(P(_)) == FieldNames(SelectSeq(kept, P))
  IN [ all |-> FieldNames(kept),
       virtual |-> pick(LAMBDA a : a.type = "VIRTUAL"),
       pk |-> pick(LAMBDA a : a.primaryKey),
       fk |-> pick(LAMBDA a : a.references),
       assoc |-> model.associations,
       blob |-> pick(LAMBDA a : a.type = "BLOB"),
       doc |-> pick(LAMBDA a : a.type \in Range(DOC_DB_TYPES)),
       auto |-> pick(LAMBDA a : a.autoGenerated) ]

Lits(names) == [i \in 1..Len(names) |-> Lit(names[i])]

RECURSIVE expandLoop(_, _)
\* The loop of _expandAttributes: an @-selector appends the result to itself and
\* then the group; a group the classification does not have is undefined, which
\* concat appends as one element.
expandLoop(attr, list) ==
  IF Len(list) = 0 THEN <<>>
  ELSE LET result == expandLoop(attr, SubSeq(list, 1, Len(list) - 1))
           a == list[Len(list)]
       IN IF a.m = "@"
          THEN result \o result \o
               (IF a.n \in DOMAIN attr THEN Lits(attr[a.n]) ELSE <<UndefinedEntry>>)
          ELSE Append(result, a)

expandAttributes(attr, list) == uniq(expandLoop(attr, list))

\* The entry pushed for a surviving name a.
compiledEntry(attr, a) ==
  IF a.m # "." /\ IndexOf(Lits(attr.all), a) < 0 /\ IndexOf(Lits(attr.assoc), a) < 0
  THEN Dot(a.n) ELSE a

\* The list, or the TypeError of reading a[0] of an undefined entry.
compileAttributesList(attr, scheme) ==
  LET include == IF Truthy(Prop(scheme, "include"))
                 THEN expandAttributes(attr, Prop(scheme, "include").v) ELSE Lits(attr.all)
      exclude == IF Truthy(Prop(scheme, "exclude"))
                 THEN expandAttributes(attr, Prop(scheme, "exclude").v) ELSE <<>>
      kept == SelectSeq(include, LAMBDA a : IndexOf(exclude, a) < 0)
  IN IF UndefinedEntry \in Range(kept)
     THEN Thrown("TypeError", "", "")
     ELSE Arr([i \in 1..Len(kept) |-> compiledEntry(attr, kept[i])])

\* The end of the constructor: the fields of the engine, once the scheme is
\* resolved and the options are merged; attrPath is set by _serializeAssoc.
compiledSerializer(model, resolved, options, merged, attr, attrList) ==
  IF attrList.k = "error" THEN attrList
  ELSE [ k |-> "serializer",
         v |-> [ model |-> model.name, scheme |-> resolved.scheme,
                 schemeName |-> resolved.schemeName,
                 origOptions |-> options, options |-> merged,
                 attr |-> attr, attrList |-> attrList.v, attrPath |-> <<>> ] ]

\* The constructor from the validation of the resolved scheme on.
resolvedSerializer(model, resolved, options, merged) ==
  IF ~Truthy(resolved.scheme) \/ resolved.scheme.k # "object"
  THEN Thrown("Invalid serialization scheme", model.name, "")
  ELSE compiledSerializer(model, resolved, options, merged, collectAttrs(model, merged),
                          compileAttributesList(collectAttrs(model, merged), resolved.scheme))

\* new Serializer(model, scheme, options): the engine, or the Error thrown.
newSerializer(modelName, schemeRef, options) ==
  IF ~Model(modelName).valid THEN Thrown("is not a valid Sequelize model", modelName, "")
  ELSE resolvedSerializer(Model(modelName), resolveScheme(Model(modelName), schemeRef), options,
                          mergeOptions(options, resolveScheme(Model(modelName), schemeRef).scheme,
                                       Model(modelName)))

\* ---------------------------------------------------------- serialization
\* A call returns [val, cache, log]: the value returned or the Error thrown,
\* the caller's cache object after the call (Undefined when none was passed)
\* and the log of what the call did, in order: an event "new" for each
\* serializer constructed (with its association path, <<>> for the root) and an
\* event "serialize" for each record handed to a serializer's serialize.

Constructed(path, model) == [ev |-> "new", path |-> path, model |-> model, inst |-> 0]

Entered(this, inst) == [ev |-> "serialize", path |-> this.attrPath, model |-> this.model, inst |-> inst]

NoCache == Undefined

EmptyCache == [k |-> "cache", v |-> {}]

CacheGet(c, path) ==
  IF c.k = "cache" /\ \E e \in c.v : e.path = path
  THEN (CHOOSE e \in c.v : e.path = path).ser
  ELSE Undefined

\* A store that keeps the stored entry alone.
CachePutAlone(c, path, ser) ==
  IF c.k = "cache"
  THEN [k |-> "cache", v |-> {[path |-> path, ser |-> ser]}]
  ELSE c

CachePut(c, path, ser) ==
  IF c.k = "cache"
  THEN [k |-> "cache", v |-> {e \in c.v : e.path # path} \cup {[path |-> path, ser |-> ser]}]
  ELSE c

Descriptor(model, attr) ==
  IF \E i \in 1..Len(model.rawAttributes) : model.rawAttributes[i].fieldName = attr
  THEN model.rawAttributes[CHOOSE i \in 1..Len(model.rawAttributes) :
                             model.rawAttributes[i].fieldName = attr]
  ELSE Undefined

\* A post-serialize hook is an arbitrary function of its arguments.
callHook(hook, output, inst, schemeName) ==
  IF hook.k = "function"
  THEN [k |-> "hooked", v |-> [hook |-> hook.v, output |-> output, inst |-> inst, schemeName |-> schemeName]]
  ELSE Thrown("TypeError", "", "postSerialize")

\* The two hook calls in the other order: the scheme's hook, then the model's.
postSerializeSchemeFirst(this, output, inst) ==
  LET model == Model(this.model)
      modelHook == IF Truthy(model.serializer)
                   THEN Prop(model.serializer, "postSerialize") ELSE Undefined
      schemeHook == Prop(this.scheme, "postSerialize")
      afterScheme == IF Truthy(schemeHook)
                     THEN callHook(schemeHook, output, inst, Undefined) ELSE output
  IN IF afterScheme.k = "error" THEN afterScheme
     ELSE IF Truthy(modelHook) THEN callHook(modelHook, afterScheme, inst, this.schemeName)
     ELSE afterScheme

\* The two hook calls that end serialize.
postSerialize(this, output, inst) ==
  LET model == Model(this.model)
      modelHook == IF Truthy(model.serializer)
                   THEN Prop(model.serializer, "postSerialize") ELSE Undefined
      afterModel == IF Truthy(modelHook)
                    THEN callHook(modelHook, output, inst, this.schemeName) ELSE output
      schemeHook == Prop(this.scheme, "postSerialize")
  IN IF afterModel.k = "error" THEN afterModel
     ELSE IF Truthy(schemeHook) THEN callHook(schemeHook, afterModel, inst, Undefined)
     ELSE afterModel

\* A switch with the SKIP and SET_NULL cases exchanged.
applyUndefinedPolicyExchanged(this, output, name, a) ==
  LET policy == Get(this.options, "undefinedPolicy")
  IN CASE policy = Num(SET_NULL) -> Obj(output)
       [] policy = Num(SKIP) -> Obj((name :> Null) @@ output)
       [] policy = Num(FAIL) -> Thrown("Undefined attribute", this.model, a)
       [] OTHER -> Thrown("Invalid undefinedPolicy setting", "", "")

\* A switch whose default case does nothing.
applyUndefinedPolicyLenient(this, output, name, a) ==
  LET policy == Get(this.options, "undefinedPolicy")
  IN CASE policy = Num(SET_NULL) -> Obj((name :> Null) @@ output)
       [] policy = Num(FAIL) -> Thrown("Undefined attribute", this.model, a)
       [] OTHER -> Obj(output)

\* The switch on this._options.undefinedPolicy for an undefined attribute:
\* the output after it, or the Error thrown.
applyUndefinedPolicy(this, output, name, a) ==
  LET policy == Get(this.options, "undefinedPolicy")
  IN CASE policy = Num(SKIP) -> Obj(output)
       [] policy = Num(SET_NULL) -> Obj((name :> Null) @@ output)
       [] policy = Num(FAIL) -> Thrown("Undefined attribute", this.model, a)
       [] OTHER -> Thrown("Invalid undefinedPolicy setting", "", "")

\* The raw value of a compiled entry on the record, and the attribute name.
rawValue(this, inst, entry) ==
  IF entry.m # "." /\ IndexOf(Lits(this.attr.all), entry) > -1
  THEN InstGet(inst, entry.n)
  ELSE LET value == InstProp(inst, entry.n)
       IN IF value.k = "method" THEN value.v ELSE value

outputName(this, a) ==
  LET as == IF Truthy(Prop(this.scheme, "as")) THEN Prop(Prop(this.scheme, "as"), a) ELSE Null
  IN IF Truthy(as) THEN as.v ELSE a

Failed(r) == r.val.k = "error"

\* The two hook calls that end serialize, applied to the result r of the loop.
finish(this, inst, r) ==
  IF Failed(r) THEN r ELSE [r EXCEPT !.val = postSerialize(this, r.val, inst)]

\* output[name] = <the value r.val>
setOutput(output, name, r) ==
  IF Failed(r) THEN r ELSE [r EXCEPT !.val = Obj((name :> r.val) @@ output)]

\* result.push(<the value r.val>)
pushResult(result, r) ==
  IF Failed(r) THEN r ELSE [r EXCEPT !.val = Arr(Append(result, r.val))]

RECURSIVE serialize(_, _, _, _, _)
RECURSIVE serializeAttrs(_, _, _, _, _, _, _, _)
RECURSIVE restOfAttrs(_, _, _, _, _, _)
RECURSIVE serializeValue(_, _, _, _, _, _)
RECURSIVE serializeElems(_, _, _, _, _, _, _, _, _)
RECURSIVE restOfElems(_, _, _, _, _, _, _)
RECURSIVE serializeAssoc(_, _, _, _, _, _)
RECURSIVE serializeWith(_, _, _)

\* A serialize without the check of the record's model.
serializeUnchecked(this, inst, c, b, depth) ==
  IF depth > MaxDepth THEN [val |-> Thrown("RangeError", "", ""), cache |-> c, log |-> b]
  ELSE finish(this, inst, serializeAttrs(this, inst, 1, Len(this.attrList), <<>>, c,
                                         Append(b, Entered(this, inst)), depth))

\* serializer.serialize(inst, c) at call depth `depth`; a recursion deeper than
\* MaxDepth ends as the engine's stack overflow (RangeError).
serialize(this, inst, c, b, depth) ==
  IF depth > MaxDepth THEN [val |-> Thrown("RangeError", "", ""), cache |-> c, log |-> b]
  ELSE IF Records[inst].model # this.model
    THEN [ val |-> Thrown("Not an instance of", this.model, ""), cache |-> c,
           log |-> Append(b, Entered(this, inst)) ]
  ELSE finish(this, inst, serializeAttrs(this, inst, 1, Len(this.attrList), <<>>, c,
                                         Append(b, Entered(this, inst)), depth))

\* One pass of the loop over this._attrList, for entry i, with the output so far.
serializeAttr(this, inst, i, output, c, b, depth) ==
  LET a == this.attrList[i].n
      value == rawValue(this, inst, this.attrList[i])
      name == outputName(this, a)
  IN IF value # Undefined
     THEN setOutput(output, name, serializeValue(this, a, value, c, b, depth))
     ELSE [val |-> applyUndefinedPolicy(this, output, name, a), cache |-> c, log |-> b]

\* The loop over this._attrList for the entries lo..hi in order, with the output
\* so far: the first half, then (unless it threw) the second half.
serializeAttrs(this, inst, lo, hi, output, c, b, depth) ==
  IF lo > hi THEN [val |-> Obj(output), cache |-> c, log |-> b]
  ELSE IF lo = hi THEN serializeAttr(this, inst, lo, output, c, b, depth)
  ELSE restOfAttrs(this, inst, ((lo + hi) \div 2) + 1, hi,
                   serializeAttrs(this, inst, lo, (lo + hi) \div 2, output, c, b, depth), depth)

\* The entries lo..hi after the entries before them gave r.
restOfAttrs(this, inst, lo, hi, r, depth) ==
  IF Failed(r) THEN r
  ELSE serializeAttrs(this, inst, lo, hi, r.val.v, r.cache, r.log, depth)

\* A returnJSON that holds for every document type.
returnJSONDocTypes(this, attr) ==
  LET a == Descriptor(Model(this.model), attr)
  IN a # Undefined /\ Truthy(Get(this.options, "copyJSONFields")) /\ a.type \in Range(DOC_DB_TYPES)

\* Whether _serializeValue returns the value as stored (returnJSON).
returnJSON(this, attr) ==
  LET a == Descriptor(Model(this.model), attr)
  IN a # Undefined /\ Truthy(Get(this.options, "copyJSONFields")) /\ a.type \in {"JSON", "JSONB"}

\* The date-only rewrite that precedes the encoder.
simpleDate(this, attr, value) ==
  LET a == Descriptor(Model(this.model), attr)
  IN IF Truthy(Get(this.options, "simpleDates")) /\ a # Undefined /\ a.type = "DATEONLY"
        /\ value.k = "date"
     THEN [k |-> "ymdString", v |-> value.v] ELSE value

serializeValue(this, attr, value, c, b, depth) ==
  IF returnJSON(this, attr) THEN [val |-> value, cache |-> c, log |-> b]
  ELSE IF value.k = "array" THEN serializeElems(this, attr, value.v, 1, Len(value.v), <<>>, c, b, depth)
  ELSE IF value.k = "instance" THEN serializeAssoc(this, attr, value.v, c, b, depth)
  ELSE [ val |-> applyEncoder(Get(this.options, "encoder"), simpleDate(this, attr, value),
                              Get(this.options, "encoderOptions")),
         cache |-> c, log |-> b ]

\* The loop of _serializeValue over the elements lo..hi of an array, with the
\* result so far: the first half, then (unless it threw) the second half.
serializeElems(this, attr, elems, lo, hi, result, c, b, depth) ==
  IF lo > hi THEN [val |-> Arr(result), cache |-> c, log |-> b]
  ELSE IF lo = hi
    THEN pushResult(result, serializeValue(this, attr, elems[lo], c, b, depth))
  ELSE restOfElems(this, attr, elems, ((lo + hi) \div 2) + 1, hi,
                   serializeElems(this, attr, elems, lo, (lo + hi) \div 2, result, c, b, depth),
                   depth)

\* The elements lo..hi after the elements before them gave r.
restOfElems(this, attr, elems, lo, hi, r, depth) ==
  IF Failed(r) THEN r
  ELSE serializeElems(this, attr, elems, lo, hi, r.val.v, r.cache, r.log, depth)

\* The else-branch of _serializeAssoc, given the engine the constructor made (or
\* the Error it threw): the path is set, and the engine stored when a cache was
\* passed.
storeSerializer(made, attrPath, c, b) ==
  IF made.k = "error" THEN [ser |-> made, cache |-> c, log |-> b]
  ELSE [ ser |-> [made EXCEPT !.v.attrPath = attrPath],
         cache |-> CachePut(c, attrPath, [made EXCEPT !.v.attrPath = attrPath]),
         log |-> Append(b, Constructed(attrPath, made.v.model)) ]

\* A _serializeAssoc that never looks into the cache: every visit of a path
\* constructs its engine anew.
childSerializerAlwaysNew(this, attr, inst, c, b) ==
  storeSerializer(
    newSerializer(Records[inst].model,
                  IF Truthy(Prop(this.scheme, "assoc"))
                  THEN Prop(Prop(this.scheme, "assoc"), attr) ELSE Null,
                  this.origOptions),
    Append(this.attrPath, attr), c, b)

\* A _serializeAssoc whose path is the attribute name alone, whatever the path
\* of the engine it is called on.
childSerializerByAttr(this, attr, inst, c, b) ==
  IF Truthy(CacheGet(c, <<attr>>))
  THEN [ser |-> CacheGet(c, <<attr>>), cache |-> c, log |-> b]
  ELSE storeSerializer(
         newSerializer(Records[inst].model,
                       IF Truthy(Prop(this.scheme, "assoc"))
                       THEN Prop(Prop(this.scheme, "assoc"), attr) ELSE Null,
                       this.origOptions),
         <<attr>>, c, b)

\* The engine _serializeAssoc uses for a path: the cached one, or a new one.
childSerializer(this, attr, inst, c, b) ==
  IF Truthy(CacheGet(c, Append(this.attrPath, attr)))
  THEN [ser |-> CacheGet(c, Append(this.attrPath, attr)), cache |-> c, log |-> b]
  ELSE storeSerializer(
         newSerializer(Records[inst].model,
                       IF Truthy(Prop(this.scheme, "assoc"))
                       THEN Prop(Prop(this.scheme, "assoc"), attr) ELSE Null,
                       this.origOptions),
         Append(this.attrPath, attr), c, b)

\* return serializer.serialize(inst, cache)
serializeWith(got, inst, depth) ==
  IF got.ser.k = "error" THEN [val |-> got.ser, cache |-> got.cache, log |-> got.log]
  ELSE serialize(got.ser.v, inst, got.cache, got.log, depth + 1)

serializeAssoc(this, attr, inst, c, b, depth) ==
  serializeWith(childSerializer(this, attr, inst, c, b), inst, depth)

RECURSIVE serializeManyLoop(_, _, _)
RECURSIVE serializeNext(_, _, _)

\* The loop of serializeMany over the first n items: the result array so far,
\* or the Error thrown.
serializeManyLoop(this, data, n) ==
  IF n = 0 THEN [val |-> Arr(<<>>), cache |-> EmptyCache, log |-> <<Constructed(<<>>, this.model)>>]
  ELSE serializeNext(this, data[n], serializeManyLoop(this, data, n - 1))

\* result.push(serializer.serialize(inst, cache)) after the items before gave r.
serializeNext(this, inst, r) ==
  IF Failed(r) THEN r
  ELSE pushResult(r.val.v, serialize(this, inst, r.cache, r.log, 1))

\* The loop of serializeMany with the engine its constructor call made.
serializeAll(made, data) ==
  IF made.k = "error" THEN [val |-> made, cache |-> Undefined, log |-> <<>>]
  ELSE serializeManyLoop(made.v, data, Len(data))

\* Serializer.serializeMany(data, model, scheme, options)
serializeMany(data, model, scheme, options) ==
  serializeAll(newSerializer(model, scheme, options), data)

\* ------------------------------------------------------------- the inputs

ModelRefs == ModelNames \cup {"NotAModel"}

InlineScheme ==
  Obj([ include |-> Arr(<<Lit("title"), Lit("owner"), Dot("getUrl")>>),
        assoc |-> Obj([owner |-> Obj([include |-> Arr(<<Grp("pk")>>)])]),
        postSerialize |-> Fn("inline.postSerialize") ])

SchemeRefs ==
  { Undefined, Null, Str(""), Str("brief"), Str("full"), Str("missing"),
    Arr(<<"brief", "extra">>), InlineScheme, Obj(<<>>), Num(7) }

OptionArgs ==
  { Undefined,
    Obj([undefinedPolicy |-> Num(FAIL)]),
    Obj([undefinedPolicy |-> Num(SET_NULL), copyJSONFields |-> Bool(TRUE)]),
    Obj([undefinedPolicy |-> Str("SKIP")]),
    Obj([ encoder |-> Fn("customEncoder"), attrFilter |-> Fn("dropAutoGenerated"),
          copyJSONFields |-> Bool(TRUE),
          encoderOptions |-> Obj([lineBreaks |-> Bool(FALSE)]) ]) }

\* The options passed to serializeMany.
ManyOptionArgs ==
  { Undefined, Obj([undefinedPolicy |-> Num(SET_NULL), copyJSONFields |-> Bool(TRUE)]) }

RECURSIVE SeqsUpTo(_, _)
SeqsUpTo(S, n) ==
  IF n = 0 THEN {<<>>}
  ELSE LET shorter == SeqsUpTo(S, n - 1)
       IN shorter \cup {Append(q, x) : q \in shorter, x \in S}

Collections == SeqsUpTo(RecordIds, MaxItems)

\* ------------------------------------------------------- the state machine
\* serializer: what `new Serializer(...)` gave the caller (Undefined before, and
\*             when it threw)
\* cache:      the caller's cache object, passed to serialize calls that share it
\*             (serializeMany's own cache is local to the call)
\* call:       the last call and its arguments
\* ret:        what the last call returned, or the Error it threw
\* log:        what the last call did: the serializers it constructed and the
\*             records it handed to a serializer, in order

NoCall == [op |-> "none", model |-> "", scheme |-> Undefined, options |-> Undefined,
           data |-> <<>>, useCache |-> FALSE]

Init ==
  /\ serializer = Undefined
  /\ cache = EmptyCache
  /\ call = NoCall
  /\ ret = Undefined
  /\ log = <<>>

\* The state after a call that returned r (or threw r.val).
Returned(r) ==
  /\ ret' = r.val
  /\ log' = r.log

CallNew(model, scheme, options) ==
  /\ call.op = "none"
  /\ ret' = newSerializer(model, scheme, options)
  /\ serializer' = IF ret'.k = "error" THEN Undefined ELSE ret'
  /\ log' = IF ret'.k = "error" THEN <<>> ELSE <<Constructed(<<>>, model)>>
  /\ call' = [NoCall EXCEPT !.op = "new", !.model = model, !.scheme = scheme, !.options = options]
  /\ UNCHANGED cache

CallSerialize(inst, useCache) ==
  /\ serializer.k = "serializer"
  /\ IF useCache
     THEN /\ Returned(serialize(serializer.v, inst, cache, <<>>, 1))
          /\ cache' = serialize(serializer.v, inst, cache, <<>>, 1).cache
     ELSE /\ Returned(serialize(serializer.v, inst, NoCache, <<>>, 1))
          /\ UNCHANGED cache
  /\ call' = [call EXCEPT !.op = "serialize", !.data = <<inst>>, !.useCache = useCache]
  /\ UNCHANGED serializer

\* The static method, called in a fresh program.
CallSerializeMany(data, model, scheme, options) ==
  /\ call.op = "none"
  /\ Returned(serializeMany(data, model, scheme, options))
  /\ call' = [NoCall EXCEPT !.op = "serializeMany", !.model = model, !.scheme = scheme,
                            !.options = options, !.data = data, !.useCache = TRUE]
  /\ UNCHANGED <<serializer, cache>>

\* A program makes one constructor call and then serialize calls on the engine,
\* or one call of the static serializeMany.
Next ==
  \/ /\ call.op = "none"
     /\ \E model \in ModelRefs, scheme \in SchemeRefs, options \in OptionArgs :
          CallNew(model, scheme, options)
  \/ \E inst \in RecordIds, useCache \in BOOLEAN : CallSerialize(inst, useCache)
  \/ /\ call.op = "none"
     /\ \E data \in Collections, model \in ModelRefs, scheme \in SchemeRefs,
           options \in ManyOptionArgs :
          CallSerializeMany(data, model, scheme, options)

Spec == Init /\ [][Next]_vars

\* ------------------------------------- construction over include and exclude
\* The constructor called on a Post with a scheme object whose include and
\* exclude lists are drawn over the kinds of selectors: groups the model has, a
\* group it lacks, a data field, an association, and an ad-hoc property written
\* bare and with the dot marker.

Selectors ==
  { Grp("all"), Grp("pk"), Grp("fk"), Grp("nosuch"),
    Lit("title"), Lit("author"), Lit("getUrl"), Dot("getUrl") }

IncludeArgs == {Undefined} \cup {Arr(list) : list \in SeqsUpTo(Selectors, MaxInclude)}

ExcludeArgs == {Undefined} \cup {Arr(list) : list \in SeqsUpTo(Selectors, MaxExclude)}

CompileScheme(include, exclude) == Obj([include |-> include, exclude |-> exclude])

NextCompile ==
  /\ call.op = "none"
  /\ \E include \in IncludeArgs, exclude \in ExcludeArgs :
       CallNew("Post", CompileScheme(include, exclude), Undefined)

SpecCompile == Init /\ [][NextCompile]_vars

\* ============================================================== properties

NewEvents(l) == {i \in 1..Len(l) : l[i].ev = "new"}

SerializeEvents(l) == {i \in 1..Len(l) : l[i].ev = "serialize"}

\* The engine the constructor call of the last serializeMany made.
ManyEngine == newSerializer(call.model, call.scheme, call.options)

\* Each record serialized on its own by the engine, without a cache.
Independent(this, data) ==
  [i \in 1..Len(data) |-> serialize(this, data[i], NoCache, <<>>, 1).val]

\* C1: serializeMany over records of the engine's model returns, item by item,
\* what serializing each record independently with no cache returns (and throws
\* only what the first failing independent serialization throws).
C1_SharedCacheEqualsIndependent ==
  ( /\ call.op = "serializeMany"
    /\ ManyEngine.k = "serializer"
    /\ \A i \in 1..Len(call.data) : Records[call.data[i]].model = call.model )
  => LET each == Independent(ManyEngine.v, call.data)
         bad == {i \in 1..Len(call.data) : each[i].k = "error"}
     IN IF bad = {} THEN ret = Arr(each)
        ELSE ret = each[CHOOSE i \in bad : \A j \in bad : i <= j]

\* C2: in one serializeMany run the root engine is constructed once, first; no
\* association path has two engines constructed for it; and every record
\* serialized at an association path is handled after that path's one
\* construction.
C2_OneEnginePerPath ==
  (call.op = "serializeMany" /\ log # <<>>)
  => /\ log[1] = Constructed(<<>>, call.model)
     /\ \A i, j \in NewEvents(log) : log[i].path = log[j].path => i = j
     /\ \A i \in SerializeEvents(log) :
          log[i].path # <<>> => \E j \in NewEvents(log) : j < i /\ log[j].path = log[i].path

\* A run of two items in which some association path is visited more than once
\* and has one engine.
C2_PathRevisited ==
  /\ call.op = "serializeMany"
  /\ Len(call.data) = MaxItems
  /\ ret.k = "array"
  /\ \E i \in NewEvents(log) :
       /\ log[i].path # <<>>
       /\ Cardinality({j \in SerializeEvents(log) : log[j].path = log[i].path}) >= 2
       /\ Cardinality({j \in NewEvents(log) : log[j].path = log[i].path}) = 1

\* ------------------------------------------- the last call to serialize

SerializeCall == call.op = "serialize"

\* The record is an instance of the engine's model.
Matching == Records[call.data[1]].model = serializer.v.model

Entries == 1..Len(serializer.v.attrList)

RawAt(i) == rawValue(serializer.v, call.data[1], serializer.v.attrList[i])

NameAt(i) == outputName(serializer.v, serializer.v.attrList[i].n)

UndefinedAt == {i \in Entries : RawAt(i) = Undefined}

FirstUndefined == CHOOSE i \in UndefinedAt : \A j \in UndefinedAt : i <= j

\* A defined value that is no record and no array: serializing it cannot throw.
Encodable(i) ==
  RawAt(i).k \in {"string", "number", "boolean", "null", "date", "buffer", "object"}

Policy == Get(serializer.v.options, "undefinedPolicy")

\* The object the attribute loop built, under what the hooks made of it.
Emitted(o) ==
  IF o.k # "hooked" THEN o
  ELSE IF o.v.output.k # "hooked" THEN o.v.output
  ELSE o.v.output.v.output

\* C4: for an attribute whose raw value is undefined, SKIP leaves its key out
\* of the output, SET_NULL sets the key to null, FAIL throws an error naming the
\* model and the attribute (the first undefined one, when nothing before it can
\* throw); SKIP and SET_NULL never throw by themselves, and a defined attribute
\* is emitted as its serialized value whatever the policy.
C4_UndefinedPolicy ==
  (SerializeCall /\ Matching)
  => /\ (Policy \in {Num(SKIP), Num(SET_NULL)} /\ \A i \in Entries \ UndefinedAt : Encodable(i))
          => ret.k # "error"
     /\ (Policy = Num(SKIP) /\ ret.k # "error")
          => \A i \in UndefinedAt :
               (\A j \in Entries \ UndefinedAt : NameAt(j) # NameAt(i))
                 => NameAt(i) \notin DOMAIN Emitted(ret).v
     /\ (Policy = Num(SET_NULL) /\ ret.k # "error")
          => \A i \in UndefinedAt :
               (\A j \in Entries \ UndefinedAt : NameAt(j) # NameAt(i))
                 => /\ NameAt(i) \in DOMAIN Emitted(ret).v
                    /\ Emitted(ret).v[NameAt(i)] = Null
     /\ (Policy = Num(FAIL) /\ UndefinedAt # {})
          => /\ ret.k = "error"
             /\ (\A j \in 1..(FirstUndefined - 1) : Encodable(j))
                  => ret = Thrown("Undefined attribute", serializer.v.model,
                                  serializer.v.attrList[FirstUndefined].n)
     /\ ret.k # "error"
          => \A i \in Entries \ UndefinedAt :
               /\ NameAt(i) \in DOMAIN Emitted(ret).v
               /\ Encodable(i) =>
                    Emitted(ret).v[NameAt(i)]
                      = serializeValue(serializer.v, serializer.v.attrList[i].n, RawAt(i),
                                       NoCache, <<>>, 1).val

\* An undefined attribute met under FAIL: the error names the model and it.
C4_FailRaised ==
  /\ SerializeCall /\ Matching
  /\ Policy = Num(FAIL)
  /\ UndefinedAt # {}
  /\ ret = Thrown("Undefined attribute", serializer.v.model,
                  serializer.v.attrList[FirstUndefined].n)

RECURSIVE HooksInOrder(_, _, _, _)
\* o is what serialize returned for the record inst handled by the engine this
\* (c: the cache passed): the scheme's hook, if declared, made o from what the
\* model-wide hook, if declared, made of the object holding every emitted
\* attribute; and the same holds of every associated record's output in it.
HooksInOrder(o, this, inst, c) ==
  LET model == Model(this.model)
      modelHook == IF Truthy(model.serializer)
                   THEN Prop(model.serializer, "postSerialize") ELSE Undefined
      schemeHook == Prop(this.scheme, "postSerialize")
      afterModel == IF Truthy(schemeHook) THEN o.v.output ELSE o
      emitted == IF Truthy(modelHook) THEN afterModel.v.output ELSE afterModel
      entries == 1..Len(this.attrList)
      raw(i) == rawValue(this, inst, this.attrList[i])
      name(i) == outputName(this, this.attrList[i].n)
      child(i, id) == childSerializer(this, this.attrList[i].n, id, c, <<>>).ser.v
  IN /\ Truthy(schemeHook)
          => o.k = "hooked" /\ o.v.hook = schemeHook.v /\ o.v.inst = inst
     /\ Truthy(modelHook)
          => /\ afterModel.k = "hooked" /\ afterModel.v.hook = modelHook.v
             /\ afterModel.v.inst = inst /\ afterModel.v.schemeName = this.schemeName
     /\ emitted.k = "object"
     /\ DOMAIN emitted.v
          = {name(i) : i \in {j \in entries : raw(j) # Undefined
                                               \/ Get(this.options, "undefinedPolicy") = Num(SET_NULL)}}
     /\ \A i \in entries :
          /\ raw(i).k = "instance"
               => HooksInOrder(emitted.v[name(i)], child(i, raw(i).v), raw(i).v, c)
          /\ (raw(i).k = "array" /\ ~returnJSON(this, this.attrList[i].n))
               => \A n \in 1..Len(raw(i).v) :
                    raw(i).v[n].k = "instance"
                      => HooksInOrder(emitted.v[name(i)].v[n], child(i, raw(i).v[n].v),
                                      raw(i).v[n].v, c)

\* C5: what serialize returns for the root record, and for every associated
\* record inside it, is the scheme hook's result on the model-wide hook's
\* result on the object holding all the emitted attributes of that record.
C5_ModelHookThenSchemeHook ==
  (SerializeCall /\ ret.k # "error")
  => HooksInOrder(ret, serializer.v, call.data[1], IF call.useCache THEN cache ELSE NoCache)

\* Both hooks declared for the root record and for an associated record in it.
C5_BothHooksNested ==
  /\ SerializeCall
  /\ ret.k = "hooked" /\ ret.v.output.k = "hooked"
  /\ \E key \in DOMAIN Emitted(ret).v :
       LET inner == Emitted(ret).v[key]
       IN inner.k = "hooked" /\ inner.v.output.k = "hooked"

\* The places an option can come from, highest precedence first.
Places ==
  << call.options,
     Prop(serializer.v.scheme, "options"),
     Prop(Model(call.model).serializer, "options"),
     Obj(defaultOptions) >>

Defines(p, key) == p.k = "object" /\ key \in DOMAIN p.v /\ p.v[key] # Undefined

OptionKeys == {"encoder", "undefinedPolicy", "copyJSONFields", "simpleDates", "encoderOptions",
               "attrFilter"}

Highest(key) == CHOOSE i \in 1..4 : Defines(Places[i], key) /\ \A j \in 1..(i - 1) : ~Defines(Places[j], key)

\* The places that define key as an object, and the keys they have in it.
ObjectPlaces(key) == {i \in 1..4 : Defines(Places[i], key) /\ Places[i].v[key].k = "object"}

SubKeys(key) == UNION {DOMAIN Places[i].v[key].v : i \in ObjectPlaces(key)}

HighestSub(key, sub) ==
  CHOOSE i \in ObjectPlaces(key) :
    /\ sub \in DOMAIN Places[i].v[key].v
    /\ \A j \in ObjectPlaces(key) : sub \in DOMAIN Places[j].v[key].v => i <= j

NewCall == call.op = "new" /\ Model(call.model).valid

\* The model's scheme map (empty when it has none).
SchemeMap ==
  LET cfg == Model(call.model).serializer
  IN IF cfg.k = "object" /\ Prop(cfg, "schemes").k = "object" THEN Prop(cfg, "schemes").v ELSE <<>>

\* The declared default-scheme name, or "" when none is set.
DefaultSchemeName ==
  LET cfg == Model(call.model).serializer
  IN IF cfg.k = "object" /\ Prop(cfg, "defaultScheme").k = "string"
     THEN Prop(cfg, "defaultScheme").v ELSE ""

\* What the three-step rule names for a falsy reference: Undefined when the
\* declared default-scheme name is not in the scheme map.
DefaultRule ==
  IF DefaultSchemeName # "" THEN Get(SchemeMap, DefaultSchemeName)
  ELSE IF "default" \in DOMAIN SchemeMap THEN SchemeMap["default"]
  ELSE Obj(<<>>)

InvalidScheme == Thrown("Invalid serialization scheme", call.model, "")

\* The resolution of a falsy scheme reference always constructs an engine, with
\* the scheme the three-step rule names.
C7_FalsyAlwaysConstructs ==
  (NewCall /\ ~Truthy(call.scheme))
  => serializer.k = "serializer" /\ serializer.v.scheme = DefaultRule

\* C7: for a falsy scheme reference that is not a string, the engine's scheme
\* is the model's scheme named by the declared default-scheme name if set, else
\* its scheme named "default" if present, else {}; construction succeeds unless
\* the declared default-scheme name is not in the scheme map, when it throws
\* the invalid-scheme error.  The empty string is looked up as a scheme name.
C7_FalsyResolution ==
  (NewCall /\ ~Truthy(call.scheme))
  => IF call.scheme.k = "string"
     THEN IF call.scheme.v \in DOMAIN SchemeMap
          THEN serializer.k = "serializer" /\ serializer.v.scheme = SchemeMap[call.scheme.v]
          ELSE ret = InvalidScheme /\ serializer = Undefined
     ELSE IF DefaultRule = Undefined
          THEN ret = InvalidScheme /\ serializer = Undefined
          ELSE serializer.k = "serializer" /\ serializer.v.scheme = DefaultRule

\* An absent reference resolved through a declared default-scheme name.
C7_DeclaredDefaultUsed ==
  /\ NewCall /\ call.scheme = Undefined
  /\ DefaultSchemeName # "" /\ DefaultSchemeName \in DOMAIN SchemeMap
  /\ serializer.k = "serializer"
  /\ serializer.v.scheme = SchemeMap[DefaultSchemeName]
  /\ serializer.v.schemeName = Str(DefaultSchemeName)

\* A scheme name absent from the model's scheme map gives an engine that is the
\* engine of the empty scheme.
C8_MissingNameFallsToEmpty ==
  (NewCall /\ call.scheme.k = "string" /\ call.scheme.v \notin DOMAIN SchemeMap)
  => /\ serializer.k = "serializer"
     /\ serializer.v.scheme = Obj(<<>>)
     /\ serializer.v.attrList = newSerializer(call.model, Obj(<<>>), call.options).v.attrList

\* C8: a scheme name absent from the model's scheme map makes the constructor
\* throw the invalid-scheme error; no engine is constructed.
C8_MissingNameThrows ==
  (NewCall /\ call.scheme.k = "string" /\ call.scheme.v \notin DOMAIN SchemeMap)
  => ret = InvalidScheme /\ serializer = Undefined

\* A name the model's non-empty scheme map lacks.
C8_MissingNameGiven ==
  /\ NewCall /\ call.scheme = Str("missing")
  /\ SchemeMap # <<>> /\ "missing" \notin DOMAIN SchemeMap
  /\ ret = InvalidScheme

\* The constructor was given an undefinedPolicy that is none of the three.
UnrecognizedPolicy ==
  /\ Prop(call.options, "undefinedPolicy") # Undefined
  /\ Prop(call.options, "undefinedPolicy") \notin {Num(FAIL), Num(SKIP), Num(SET_NULL)}

\* Constructing an engine with an unrecognized undefinedPolicy fails.
C9_UnrecognizedPolicyFailsConstruction ==
  (NewCall /\ UnrecognizedPolicy) => ret.k = "error" /\ serializer = Undefined

\* C9: an unrecognized undefinedPolicy does not affect construction (it
\* succeeds or fails as with a recognized value); the engine throws the
\* invalid-policy error from serialize when it meets an undefined attribute,
\* and serializes a record without undefined attributes normally.
C9_UnrecognizedPolicyFailsAtUndefined ==
  UnrecognizedPolicy
  => /\ NewCall
          => (ret.k = "error")
               = (newSerializer(call.model, call.scheme, Obj([undefinedPolicy |-> Num(SKIP)])).k = "error")
     /\ (SerializeCall /\ Matching /\ UndefinedAt # {}
           /\ \A j \in 1..(FirstUndefined - 1) : Encodable(j))
          => ret = Thrown("Invalid undefinedPolicy setting", "", "")
     /\ (SerializeCall /\ Matching /\ \A i \in Entries : Encodable(i))
          => ret.k # "error"

\* An engine constructed with an unrecognized policy met an undefined attribute.
C9_ThrownAtUndefined ==
  /\ SerializeCall /\ Matching /\ UnrecognizedPolicy
  /\ UndefinedAt # {}
  /\ ret = Thrown("Invalid undefinedPolicy setting", "", "")

\* A record handed to an engine of another model.
Mismatch(e) == e.ev = "serialize" /\ Records[e.inst].model # e.model

\* C10: whenever a record is handed to an engine of another model (the root
\* engine or the engine of an association path, new or taken from the cache),
\* nothing more is done and the call throws that engine's type-mismatch error.
C10_TypeMismatchThrows ==
  /\ (SerializeCall /\ ~Matching)
       => ret = Thrown("Not an instance of", serializer.v.model, "")
  /\ call.op \in {"serialize", "serializeMany"}
       => \A i \in 1..Len(log) :
            Mismatch(log[i])
              => i = Len(log) /\ ret = Thrown("Not an instance of", log[i].model, "")

\* An engine taken from the cache for an association path, having serialized a
\* record of its model, is handed a record of another model.
C10_CachedEngineMismatch ==
  /\ call.op = "serializeMany"
  /\ \E i \in 1..Len(log) :
       /\ Mismatch(log[i]) /\ log[i].path # <<>>
       /\ \E j \in 1..(i - 1) :
            log[j].ev = "serialize" /\ log[j].path = log[i].path /\ ~Mismatch(log[j])
       /\ ret = Thrown("Not an instance of", log[i].model, "")

\* --------------------------------------------- the compiled attribute list

RECURSIVE Expansion(_, _)
\* The names a selector list stands for, in order with repetitions: a group's
\* members for an @-selector (none for a group the model lacks), else the name
\* as written.
Expansion(attr, list) ==
  IF Len(list) = 0 THEN <<>>
  ELSE (IF list[1].m = "@"
        THEN (IF list[1].n \in DOMAIN attr THEN Lits(attr[list[1].n]) ELSE <<>>)
        ELSE <<list[1]>>)
       \o Expansion(attr, Tail(list))

IncludeExpansion ==
  IF Truthy(Prop(serializer.v.scheme, "include"))
  THEN Expansion(serializer.v.attr, Prop(serializer.v.scheme, "include").v)
  ELSE Lits(serializer.v.attr.all)

ExcludeExpansion ==
  IF Truthy(Prop(serializer.v.scheme, "exclude"))
  THEN Expansion(serializer.v.attr, Prop(serializer.v.scheme, "exclude").v)
  ELSE <<>>

Survivors == Range(IncludeExpansion) \ Range(ExcludeExpansion)

FirstIn(list, x) == CHOOSE i \in 1..Len(list) : list[i] = x /\ \A j \in 1..(i - 1) : list[j] # x

\* How a surviving name stands in the compiled list: with the dot marker when
\* it is written bare and is neither a data field nor an association.
Shown(x) ==
  IF x.m = "" /\ x.n \notin Range(serializer.v.attr.all) \cup Range(serializer.v.attr.assoc)
  THEN Dot(x.n) ELSE x

\* C3: the compiled attribute list of a constructed engine holds no name that
\* is in both expansions and no name of the exclude expansion, holds every
\* surviving name exactly once and nothing else, and keeps the survivors in the
\* order of their first occurrence in the include expansion.
C3_IncludeMinusExclude ==
  (call.op = "new" /\ serializer.k = "serializer")
  => LET list == serializer.v.attrList
     IN /\ \A x \in Range(ExcludeExpansion) : x \notin Range(list)
        /\ \A x \in Survivors : Cardinality({i \in 1..Len(list) : list[i] = Shown(x)}) = 1
        /\ \A i \in 1..Len(list) : \E x \in Survivors : list[i] = Shown(x)
        /\ \A x, y \in Survivors :
             FirstIn(IncludeExpansion, x) < FirstIn(IncludeExpansion, y)
               => \A i, j \in 1..Len(list) : (list[i] = Shown(x) /\ list[j] = Shown(y)) => i < j

\* C11: compiling the attribute list never throws: whatever the include and
\* exclude lists, the constructor returns an engine, in whose compiled list
\* every bare name that is neither a data field nor an association stands as
\* an ad-hoc property reference.
C11_CompileNeverThrows ==
  call.op = "new"
  => /\ ret.k # "error"
     /\ serializer.k = "serializer"
     /\ \A i \in 1..Len(serializer.v.attrList) :
          LET a == serializer.v.attrList[i]
          IN a.m = "." \/ a.n \in Range(serializer.v.attr.all) \cup Range(serializer.v.attr.assoc)

\* ------------------------------------------------------- document fields

CopyEnabled == Truthy(Get(serializer.v.options, "copyJSONFields"))

\* The type of the data field an entry names, "" when it names none.
TypeAt(i) ==
  LET a == Descriptor(Model(serializer.v.model), serializer.v.attrList[i].n)
  IN IF a = Undefined THEN "" ELSE a.type

\* What the configured encoder makes of the raw value of an entry.
EncodedAt(i) ==
  applyEncoder(Get(serializer.v.options, "encoder"), RawAt(i),
               Get(serializer.v.options, "encoderOptions"))

\* With copyJSONFields enabled the output holds the stored value of every field
\* of a document type (JSON, JSONB, HSTORE), not what the encoder makes of it.
C12_DocumentFieldsCopied ==
  (SerializeCall /\ Matching /\ ret.k # "error" /\ CopyEnabled)
  => \A i \in Entries \ UndefinedAt :
       TypeAt(i) \in Range(DOC_DB_TYPES) => Emitted(ret).v[NameAt(i)] = RawAt(i)

\* C12: with copyJSONFields enabled the output holds the stored value of every
\* JSON or JSONB field, whatever the value is (an array too); the object of an
\* HSTORE field always goes through the configured encoder, as the object of a
\* JSON or JSONB field does when copyJSONFields is disabled.
C12_JSONFieldsCopied ==
  (SerializeCall /\ Matching /\ ret.k # "error")
  => \A i \in Entries \ UndefinedAt :
       /\ (CopyEnabled /\ TypeAt(i) \in {"JSON", "JSONB"})
            => Emitted(ret).v[NameAt(i)] = RawAt(i)
       /\ (TypeAt(i) = "HSTORE" /\ RawAt(i).k = "object")
            => Emitted(ret).v[NameAt(i)] = EncodedAt(i)
       /\ (~CopyEnabled /\ TypeAt(i) \in {"JSON", "JSONB"} /\ RawAt(i).k = "object")
            => Emitted(ret).v[NameAt(i)] = EncodedAt(i)

\* A record with a JSON field and an HSTORE field, serialized with
\* copyJSONFields enabled and an encoder that changes what it is given: the
\* first is copied, the second encoded.
C12_CopiedAndEncoded ==
  /\ SerializeCall /\ Matching /\ ret.k # "error" /\ CopyEnabled
  /\ \E i, j \in Entries \ UndefinedAt :
       /\ TypeAt(i) = "JSON" /\ Emitted(ret).v[NameAt(i)] = RawAt(i)
       /\ TypeAt(j) = "HSTORE" /\ Emitted(ret).v[NameAt(j)] = EncodedAt(j)
       /\ EncodedAt(j) # RawAt(j)

\* ------------------------------------------------------------ cyclic data

\* The records a record holds, in a property or in an array.
Held(r) ==
  LET values == {Records[r].own[key] : key \in DOMAIN Records[r].own}
                \cup {Records[r].dataValues[key] : key \in DOMAIN Records[r].dataValues}
  IN {j \in RecordIds : \E x \in values :
        x = Inst(j) \/ (x.k = "array" /\ Inst(j) \in Range(x.v))}

RECURSIVE Within(_, _)
\* The records at the end of a chain of n holdings from r.
Within(r, n) == IF n = 0 THEN {r} ELSE UNION {Held(x) : x \in Within(r, n - 1)}

\* The path of n steps through the association a.
Repeat(a, n) == [i \in 1..n |-> a]

\* An entry that cannot throw: an encodable value, or an undefined one under a
\* policy that does not throw.
Harmless(i) ==
  Encodable(i) \/ (RawAt(i) = Undefined /\ Policy \in {Num(SKIP), Num(SET_NULL)})

\* The entries of the engine that hold the record itself and for which the
\* engine of the next level is this engine again (but for its path), with
\* nothing before them that can throw.
LoopEntries ==
  {i \in Entries :
     /\ RawAt(i) = Inst(call.data[1])
     /\ \A j \in 1..(i - 1) : Harmless(j)
     /\ LET next == childSerializer(serializer.v, serializer.v.attrList[i].n, call.data[1],
                                    NoCache, <<>>).ser
        IN next.k = "serializer" /\ [next EXCEPT !.v.attrPath = <<>>] = serializer}

\* C13: a record held by itself through an association that the scheme of
\* every level includes is serialized at every depth up to the bound of the
\* recursion, each level at a longer path with an engine of its own (new, or
\* stored under that path when a cache is passed), and the call ends in the
\* exhaustion of the stack, never in an output, with a cache and without; a
\* record from which no chain of holdings is as long as the bound never ends
\* so, although its model is associated with itself.
C13_CyclicDataUnbounded ==
  (SerializeCall /\ Matching)
  => /\ LoopEntries # {}
          => LET first == CHOOSE i \in LoopEntries : \A j \in LoopEntries : i <= j
                 a == serializer.v.attrList[first].n
             IN /\ ret = Thrown("RangeError", "", "")
                /\ \A n \in 0..(MaxDepth - 1) :
                     \E e \in SerializeEvents(log) :
                       log[e].path = Repeat(a, n) /\ log[e].inst = call.data[1]
                /\ \A n \in 1..(MaxDepth - 1) :
                     IF call.useCache
                     THEN /\ CacheGet(cache, Repeat(a, n)).k = "serializer"
                          /\ CacheGet(cache, Repeat(a, n)).v.attrPath = Repeat(a, n)
                     ELSE \E e \in NewEvents(log) : log[e].path = Repeat(a, n)
     /\ Within(call.data[1], MaxDepth) = {}
          => ret # Thrown("RangeError", "", "")

\* A record that is its own parent, serialized with a cache by the scheme that
\* includes the parent at every level.
C13_SelfParent ==
  /\ SerializeCall /\ Matching /\ call.useCache
  /\ LoopEntries # {}
  /\ ret = Thrown("RangeError", "", "")
  /\ Cardinality({log[e].path : e \in SerializeEvents(log)}) = MaxDepth

\* ------------------------------------------------------------ the shared cache

\* The paths of the engines the call constructed for associations.
Inserted(b) == {b[e].path : e \in NewEvents(b)} \ {<<>>}

\* Every entry holds an engine whose path is the key, one entry per key.
WellKeyed(c) ==
  \A e \in c.v :
    /\ e.ser.k = "serializer"
    /\ e.ser.v.attrPath = e.path
    /\ \A f \in c.v : f.path = e.path => f = e

\* C14: over the serialize calls that share one cache, each call leaves every
\* entry the cache held as it was; each stored engine's path is the key it is
\* stored under; a call without a cache stores nothing, in the shared cache or
\* in a cache of its own; and every engine a call with the cache constructed
\* for an association is in the cache after the call, whether the call
\* returned or threw.
C14_CacheOnlyGrows ==
  [][ /\ cache.v \subseteq cache'.v
      /\ WellKeyed(cache')
      /\ (call'.op = "serialize" /\ ~call'.useCache)
           => /\ cache' = cache
              /\ serialize(serializer.v, call'.data[1], NoCache, <<>>, 1).cache = NoCache
      /\ (call'.op = "serialize" /\ call'.useCache)
           => \A path \in Inserted(log') : CacheGet(cache', path).k = "serializer"
    ]_vars

\* A call with a cache that already held entries stored engines and then threw.
C14_FailedAfterInsert ==
  /\ SerializeCall /\ call.useCache
  /\ ret.k = "error"
  /\ Inserted(log) # {}
  /\ \E e \in cache.v : e.path \notin Inserted(log)

====
